---- MODULE Spec2Model ----
(***************************************************************************)
(* Model of libactionkv (src/src/lib.rs): a log-structured key-value store *)
(* made of one append-only file of checksummed records and an in-memory    *)
(* index from key to record offset.                                        *)
(*                                                                         *)
(* Bytes are integers 0..255, byte strings are sequences of bytes and the  *)
(* file is one byte string.  A u32 is kept as a pair <<hi, lo>> of 16-bit  *)
(* halves, so that 32-bit values and their wrap-around are exact.          *)
(***************************************************************************)
EXTENDS Integers, Sequences, FiniteSets, TLC

\* ------------------------------------------------------------------------
\* 32-bit words
\* ------------------------------------------------------------------------
Half == 65536

\* XorNibble[a + 1][b + 1] is a XOR b for a, b in 0..15
XorNibble ==
  <<<<0, 1, 2, 3, 4, 5, 6, 7, 8, 9, 10, 11, 12, 13, 14, 15>>,
    <<1, 0, 3, 2, 5, 4, 7, 6, 9, 8, 11, 10, 13, 12, 15, 14>>,
    <<2, 3, 0, 1, 6, 7, 4, 5, 10, 11, 8, 9, 14, 15, 12, 13>>,
    <<3, 2, 1, 0, 7, 6, 5, 4, 11, 10, 9, 8, 15, 14, 13, 12>>,
    <<4, 5, 6, 7, 0, 1, 2, 3, 12, 13, 14, 15, 8, 9, 10, 11>>,
    <<5, 4, 7, 6, 1, 0, 3, 2, 13, 12, 15, 14, 9, 8, 11, 10>>,
    <<6, 7, 4, 5, 2, 3, 0, 1, 14, 15, 12, 13, 10, 11, 8, 9>>,
    <<7, 6, 5, 4, 3, 2, 1, 0, 15, 14, 13, 12, 11, 10, 9, 8>>,
    <<8, 9, 10, 11, 12, 13, 14, 15, 0, 1, 2, 3, 4, 5, 6, 7>>,
    <<9, 8, 11, 10, 13, 12, 15, 14, 1, 0, 3, 2, 5, 4, 7, 6>>,
    <<10, 11, 8, 9, 14, 15, 12, 13, 2, 3, 0, 1, 6, 7, 4, 5>>,
    <<11, 10, 9, 8, 15, 14, 13, 12, 3, 2, 1, 0, 7, 6, 5, 4>>,
    <<12, 13, 14, 15, 8, 9, 10, 11, 4, 5, 6, 7, 0, 1, 2, 3>>,
    <<13, 12, 15, 14, 9, 8, 11, 10, 5, 4, 7, 6, 1, 0, 3, 2>>,
    <<14, 15, 12, 13, 10, 11, 8, 9, 6, 7, 4, 5, 2, 3, 0, 1>>,
    <<15, 14, 13, 12, 11, 10, 9, 8, 7, 6, 5, 4, 3, 2, 1, 0>>>>

RECURSIVE Xor(_, _)
Xor(a, b) ==
  IF a = 0 THEN b
  ELSE IF b = 0 THEN a
  ELSE XorNibble[(a % 16) + 1][(b % 16) + 1] + 16 * Xor(a \div 16, b \div 16)

XorW(v, w) == <<Xor(v[1], w[1]), Xor(v[2], w[2])>>

\* a usize as the pair <<bits 16 and up, low 16 bits>>
Usize(n) == <<n \div Half, n % Half>>

\* `as u32` on a usize given as such a pair: the low 32 bits
TruncU32(w) == <<w[1] % Half, w[2]>>

\* usize -> u32 (`as u32`): the low 32 bits
AsU32(n) == TruncU32(Usize(n))

\* u32 + u32: the wrapped sum and whether it overflowed
AddU32(v, w) ==
  LET lo == v[2] + w[2]
      hi == v[1] + w[1] + (lo \div Half)
  IN  [sum |-> <<hi % Half, lo % Half>>, overflow |-> hi >= Half]

\* write_u32::<LittleEndian>
WriteU32(w) == <<w[2] % 256, w[2] \div 256, w[1] % 256, w[1] \div 256>>

\* read_u32::<LittleEndian> of the four bytes of f that start after offset p
ReadU32(f, p) == <<f[p + 4] * 256 + f[p + 3], f[p + 2] * 256 + f[p + 1]>>

\* ------------------------------------------------------------------------
\* CRC-32/CKSUM: poly 0x04C11DB7, init 0, no reflection, xorout 0xFFFFFFFF
\* ------------------------------------------------------------------------
CrcPoly == <<1217, 7607>>

\* one step of the bitwise division: shift left, subtract the polynomial
CrcShift1(w) ==
  LET s == <<((w[1] * 2) % Half) + (w[2] \div 32768), (w[2] * 2) % Half>>
  IN  IF w[1] >= 32768 THEN XorW(s, CrcPoly) ELSE s

RECURSIVE CrcShiftN(_, _)
CrcShiftN(w, n) == IF n = 0 THEN w ELSE CrcShiftN(CrcShift1(w), n - 1)

\* the byte-wise lookup table of the polynomial:
\* CrcTable[i + 1] = CrcShiftN(<<i * 256, 0>>, 8) for i in 0..255
CrcTable ==
  <<
    <<0, 0>>, <<1217, 7607>>, <<2434, 15214>>, <<3395, 9945>>,
    <<4868, 30428>>, <<6085, 27499>>, <<6790, 19890>>, <<7751, 20485>>,
    <<9736, 60856>>, <<8905, 61455>>, <<12170, 54998>>, <<11083, 52065>>,
    <<13580, 39780>>, <<12749, 34515>>, <<15502, 40970>>, <<14415, 48573>>,
    <<19473, 56176>>, <<18640, 50887>>, <<17811, 57374>>, <<16722, 64937>>,
    <<24341, 44460>>, <<23508, 45083>>, <<22167, 38594>>, <<21078, 35701>>,
    <<27161, 14024>>, <<28376, 11135>>, <<25499, 3494>>, <<26458, 4113>>,
    <<31005, 16404>>, <<32220, 23971>>, <<28831, 31610>>, <<29790, 26317>>,
    <<38947, 46816>>, <<40162, 43863>>, <<37281, 36238>>, <<38240, 36921>>,
    <<35623, 49212>>, <<36838, 56715>>, <<33445, 64338>>, <<34404, 59109>>,
    <<48683, 23384>>, <<47850, 18159>>, <<47017, 24630>>, <<45928, 32129>>,
    <<44335, 11652>>, <<43502, 12339>>, <<42157, 5866>>, <<41068, 2909>>,
    <<54322, 28048>>, <<53491, 28711>>, <<56752, 22270>>, <<55665, 19273>>,
    <<50998, 6988>>, <<50167, 1787>>, <<52916, 8226>>, <<51829, 15765>>,
    <<62010, 32808>>, <<63227, 40351>>, <<64440, 47942>>, <<65401, 42737>>,
    <<57662, 63220>>, <<58879, 60227>>, <<59580, 52634>>, <<60541, 53293>>,
    <<13446, 28791>>, <<12359, 28096>>, <<15620, 19225>>, <<14789, 22190>>,
    <<10114, 1707>>, <<9027, 6940>>, <<11776, 15813>>, <<10945, 8306>>,
    <<4750, 40399>>, <<5711, 32888>>, <<6924, 42657>>, <<8141, 47894>>,
    <<394, 60179>>, <<1355, 63140>>, <<2056, 53373>>, <<3273, 52682>>,
    <<30871, 43783>>, <<31830, 46768>>, <<28949, 36969>>, <<30164, 36318>>,
    <<27539, 56795>>, <<28498, 49260>>, <<25105, 59061>>, <<26320, 64258>>,
    <<24223, 18111>>, <<23134, 23304>>, <<22301, 32209>>, <<21468, 24678>>,
    <<19867, 12387>>, <<18778, 11732>>, <<17433, 2829>>, <<16600, 5818>>,
    <<44197, 50839>>, <<43108, 56096>>, <<42279, 65017>>, <<41446, 57422>>,
    <<49057, 45131>>, <<47968, 44540>>, <<46627, 35621>>, <<45794, 38546>>,
    <<35501, 11055>>, <<36460, 13976>>, <<33583, 4161>>, <<34798, 3574>>,
    <<39337, 24051>>, <<40296, 16452>>, <<36907, 26269>>, <<38122, 31530>>,
    <<57524, 7655>>, <<58485, 80>>, <<59702, 9865>>, <<60919, 15166>>,
    <<62384, 27451>>, <<63345, 30348>>, <<64050, 20565>>, <<65267, 19938>>,
    <<50876, 61535>>, <<49789, 60904>>, <<53054, 52017>>, <<52223, 54918>>,
    <<54712, 34435>>, <<53625, 39732>>, <<56378, 48621>>, <<55547, 41050>>,
    <<26892, 57582>>, <<28109, 64857>>, <<24718, 56192>>, <<25679, 50743>>,
    <<31240, 38450>>, <<32457, 35717>>, <<29578, 44380>>, <<30539, 45291>>,
    <<20228, 3414>>, <<19397, 4321>>, <<18054, 13880>>, <<16967, 11151>>,
    <<23552, 31626>>, <<22721, 26173>>, <<21890, 16612>>, <<20803, 23891>>,
    <<9501, 15262>>, <<8668, 9769>>, <<11423, 240>>, <<10334, 7495>>,
    <<13849, 19778>>, <<13016, 20725>>, <<16283, 30252>>, <<15194, 27547>>,
    <<789, 54822>>, <<2004, 52113>>, <<2711, 60744>>, <<3670, 61695>>,
    <<4113, 41210>>, <<5328, 48461>>, <<6547, 39828>>, <<7506, 34339>>,
    <<61743, 22030>>, <<62958, 19385>>, <<63661, 28000>>, <<64620, 28887>>,
    <<57899, 8402>>, <<59114, 15717>>, <<60329, 7100>>, <<61288, 1547>>,
    <<55079, 48054>>, <<54246, 42497>>, <<56997, 32984>>, <<55908, 40303>>,
    <<50211, 52586>>, <<49378, 53469>>, <<52641, 62980>>, <<51552, 60339>>,
    <<48446, 36222>>, <<47615, 37065>>, <<46268, 46608>>, <<45181, 43943>>,
    <<44602, 64418>>, <<43771, 58901>>, <<42936, 49356>>, <<41849, 56699>>,
    <<39734, 24774>>, <<40951, 32113>>, <<37556, 23464>>, <<38517, 17951>>,
    <<34866, 5658>>, <<36083, 2989>>, <<33200, 11636>>, <<34161, 12483>>,
    <<23946, 37017>>, <<22859, 36142>>, <<21512, 44023>>, <<20681, 46656>>,
    <<20110, 58949>>, <<19023, 64498>>, <<18188, 56619>>, <<17357, 49308>>,
    <<31618, 32033>>, <<32579, 24726>>, <<29184, 17999>>, <<30401, 23544>>,
    <<26758, 3069>>, <<27719, 5706>>, <<24836, 12435>>, <<26053, 11556>>,
    <<4507, 19433>>, <<5466, 22110>>, <<6169, 28807>>, <<7384, 27952>>,
    <<671, 15669>>, <<1630, 8322>>, <<2845, 1627>>, <<4060, 7148>>,
    <<14227, 42577>>, <<13138, 48102>>, <<15889, 40255>>, <<15056, 32904>>,
    <<9367, 53389>>, <<8278, 52538>>, <<11541, 60387>>, <<10708, 63060>>,
    <<50601, 9849>>, <<49512, 15310>>, <<52267, 7447>>, <<51434, 160>>,
    <<54957, 20645>>, <<53868, 19730>>, <<57135, 27595>>, <<56302, 30332>>,
    <<58273, 52161>>, <<59232, 54902>>, <<59939, 61615>>, <<61154, 60696>>,
    <<61605, 48413>>, <<62564, 41130>>, <<63783, 34419>>, <<64998, 39876>>,
    <<35256, 64777>>, <<36217, 57534>>, <<32826, 50791>>, <<34043, 56272>>,
    <<39612, 35797>>, <<40573, 38498>>, <<37694, 45243>>, <<38911, 44300>>,
    <<44976, 4273>>, <<43889, 3334>>, <<42546, 11231>>, <<41715, 13928>>,
    <<48308, 26221>>, <<47221, 31706>>, <<46390, 23811>>, <<45559, 16564>> >>

CrcUpdate(w, b) ==
  XorW(<<(w[1] % 256) * 256 + (w[2] \div 256), (w[2] % 256) * 256>>,
       CrcTable[Xor(w[1] \div 256, b) + 1])

\* e, with v evaluated first (operator arguments are evaluated on demand,
\* which would nest the evaluation of a long fold too deeply)
Then(v, e) == IF v = v THEN e ELSE e

\* the register w after the bytes data[lo..hi], fed in order; the range is
\* halved to keep the evaluation shallow
RECURSIVE CrcFold(_, _, _, _)
CrcFold(w, data, lo, hi) ==
  IF lo > hi THEN w
  ELSE IF lo = hi THEN CrcUpdate(w, data[lo])
  ELSE LET mid  == (lo + hi) \div 2
           left == CrcFold(w, data, lo, mid)
       IN  Then(left, CrcFold(left, data, mid + 1, hi))

\* CRC32.checksum(&data)
Checksum(data) ==
  LET w == CrcFold(<<0, 0>>, data, 1, Len(data))
  IN  <<65535 - w[1], 65535 - w[2]>>


\* ------------------------------------------------------------------------
\* Bounds and inputs
\* ------------------------------------------------------------------------
\* capacity of the BufReader wrapped around the file (scaled down from the
\* library default so that a read can leave the handle inside the file)
ReadBufCap == 16
\* mutations are enabled while the record still fits in this many bytes
MaxFileLen == 42
\* the same bound for the specification with failures
MaxFaultFileLen == 28

MaxCodecFileLen == 30
KeyA == <<97>>
KeyB == <<98>>
Keys == {KeyA, KeyB}
Values == {<<49>>, <<50>>}

Min(a, b) == IF a < b THEN a ELSE b

\* ------------------------------------------------------------------------
\* State
\* ------------------------------------------------------------------------
VARIABLES
  file,    \* contents of the backing file
  pos,     \* offset of the file handle (ActionKV.file)
  index,   \* ActionKV.index: key -> offset
  phase,   \* "Opened" (after open), "Ready" (after an Ok load), "Panicked"
  debug,   \* TRUE iff the build has debug assertions and overflow checks
  last,    \* the most recent call and what it returned
  prev,    \* the call before it
  fault    \* the failure of the file or the disk that has happened, if any

vars == <<file, pos, index, phase, debug, last, prev, fault>>

NoFault == [kind |-> "none", off |-> 0, n |-> 0]

NoCall == [op |-> "none", key |-> <<>>, value |-> <<>>, res |-> "none"]

Call(op, key, value, res, out, position, eof0, pos0) ==
  [op |-> op, key |-> key, value |-> value, res |-> res, out |-> out,
   position |-> position, eof0 |-> eof0, pos0 |-> pos0]

Brief(c) == [op |-> c.op, key |-> c.key, value |-> c.value, res |-> c.res]

EmptyIndex == [k \in {} |-> 0]

\* mutant: an existing entry keeps its offset
IndexInsertIfAbsent(idx, k, off) ==
  [x \in (DOMAIN idx) \cup {k} |-> IF x \in DOMAIN idx THEN idx[x] ELSE off]

\* HashMap::insert
IndexInsert(idx, k, off) ==
  [x \in (DOMAIN idx) \cup {k} |-> IF x = k THEN off ELSE idx[x]]

\* ------------------------------------------------------------------------
\* Record codec
\* ------------------------------------------------------------------------
\* mutant: the header lacks the value length
EncodeNoValLen(key, value) ==
  LET tmp == key \o value
  IN  WriteU32(Checksum(tmp)) \o WriteU32(AsU32(Len(key))) \o tmp

\* the bytes insert_but_ignore_index hands to the writer
Encode(key, value) ==
  LET tmp == key \o value
  IN  WriteU32(Checksum(tmp)) \o WriteU32(AsU32(Len(key)))
        \o WriteU32(AsU32(Len(value))) \o tmp

\* offset of the handle after a BufReader positioned at p has served `need`
\* bytes: it refills ReadBufCap bytes at a time and stops at end of file
FdAfter(f, p, need) ==
  Min(Len(f), p + ReadBufCap * ((need + ReadBufCap - 1) \div ReadBufCap))

\* mutant: the stored checksum is not compared
ProcessRecordNoCheck(f, p, dbg) ==
  IF Len(f) - p < 12
  THEN [kind |-> "Eof", fd |-> Len(f)]
  ELSE
    LET key_len  == ReadU32(f, p + 4)
        val_len  == ReadU32(f, p + 8)
        add      == AddU32(key_len, val_len)
        data_len == add.sum
        avail    == Len(f) - p - 12
        got      == IF data_len[1] > 0 THEN avail ELSE Min(avail, data_len[2])
        short    == data_len[1] > 0 \/ got < data_len[2]
        data     == SubSeq(f, p + 13, p + 12 + got)
        klen     == key_len[2]
    IN  IF dbg /\ add.overflow THEN [kind |-> "Panic", why |-> "overflow"]
        ELSE IF dbg /\ short THEN [kind |-> "Panic", why |-> "assert"]
        ELSE IF key_len[1] > 0 \/ klen > Len(data)
          THEN [kind |-> "Panic", why |-> "split_off"]
        ELSE [kind |-> "Ok",
              key |-> SubSeq(data, 1, klen),
              value |-> SubSeq(data, klen + 1, Len(data)),
              next |-> p + 12 + got,
              fd |-> IF short THEN Len(f) ELSE FdAfter(f, p, 12 + got)]

\* mutant: the payload is cut at the stored value length
ProcessRecordCutAtValLen(f, p, dbg) ==
  IF Len(f) - p < 12
  THEN [kind |-> "Eof", fd |-> Len(f)]
  ELSE
    LET saved_checksum == ReadU32(f, p)
        key_len  == ReadU32(f, p + 4)
        val_len  == ReadU32(f, p + 8)
        add      == AddU32(key_len, val_len)
        data_len == add.sum
        avail    == Len(f) - p - 12
        got      == IF data_len[1] > 0 THEN avail ELSE Min(avail, data_len[2])
        short    == data_len[1] > 0 \/ got < data_len[2]
        data     == SubSeq(f, p + 13, p + 12 + got)
        klen     == val_len[2]
    IN  IF dbg /\ add.overflow THEN [kind |-> "Panic", why |-> "overflow"]
        ELSE IF dbg /\ short THEN [kind |-> "Panic", why |-> "assert"]
        ELSE IF Checksum(data) # saved_checksum
          THEN [kind |-> "Panic", why |-> "corruption"]
        ELSE IF val_len[1] > 0 \/ klen > Len(data)
          THEN [kind |-> "Panic", why |-> "split_off"]
        ELSE [kind |-> "Ok",
              key |-> SubSeq(data, 1, klen),
              value |-> SubSeq(data, klen + 1, Len(data)),
              next |-> p + 12 + got,
              fd |-> IF short THEN Len(f) ELSE FdAfter(f, p, 12 + got)]

\* mutant: the 12 bytes of the header are not counted as read
ProcessRecordHeaderNotCounted(f, p, dbg) ==
  IF Len(f) - p < 12
  THEN [kind |-> "Eof", fd |-> Len(f)]
  ELSE
    LET saved_checksum == ReadU32(f, p)
        key_len  == ReadU32(f, p + 4)
        val_len  == ReadU32(f, p + 8)
        add      == AddU32(key_len, val_len)
        data_len == add.sum
        avail    == Len(f) - p - 12
        got      == IF data_len[1] > 0 THEN avail ELSE Min(avail, data_len[2])
        short    == data_len[1] > 0 \/ got < data_len[2]
        data     == SubSeq(f, p + 13, p + 12 + got)
        klen     == key_len[2]
    IN  IF dbg /\ add.overflow THEN [kind |-> "Panic", why |-> "overflow"]
        ELSE IF dbg /\ short THEN [kind |-> "Panic", why |-> "assert"]
        ELSE IF Checksum(data) # saved_checksum
          THEN [kind |-> "Panic", why |-> "corruption"]
        ELSE IF key_len[1] > 0 \/ klen > Len(data)
          THEN [kind |-> "Panic", why |-> "split_off"]
        ELSE [kind |-> "Ok",
              key |-> SubSeq(data, 1, klen),
              value |-> SubSeq(data, klen + 1, Len(data)),
              next |-> p + got,
              fd |-> IF short THEN Len(f) ELSE FdAfter(f, p, 12 + got)]

\* process_record on the bytes of f from offset p
ProcessRecord(f, p, dbg) ==
  IF Len(f) - p < 12
  THEN [kind |-> "Eof", fd |-> Len(f)]
  ELSE
    LET saved_checksum == ReadU32(f, p)
        key_len  == ReadU32(f, p + 4)
        val_len  == ReadU32(f, p + 8)
        add      == AddU32(key_len, val_len)
        data_len == add.sum
        avail    == Len(f) - p - 12
        got      == IF data_len[1] > 0 THEN avail ELSE Min(avail, data_len[2])
        short    == data_len[1] > 0 \/ got < data_len[2]
        data     == SubSeq(f, p + 13, p + 12 + got)
        klen     == key_len[2]
    IN  IF dbg /\ add.overflow THEN [kind |-> "Panic", why |-> "overflow"]
        ELSE IF dbg /\ short THEN [kind |-> "Panic", why |-> "assert"]
        ELSE IF Checksum(data) # saved_checksum
          THEN [kind |-> "Panic", why |-> "corruption"]
        ELSE IF key_len[1] > 0 \/ klen > Len(data)
          THEN [kind |-> "Panic", why |-> "split_off"]
        ELSE [kind |-> "Ok",
              key |-> SubSeq(data, 1, klen),
              value |-> SubSeq(data, klen + 1, Len(data)),
              next |-> p + 12 + got,
              fd |-> IF short THEN Len(f) ELSE FdAfter(f, p, 12 + got)]

\* ------------------------------------------------------------------------
\* Operations
\* ------------------------------------------------------------------------
\* mutant: the file is not opened in append mode and the handle is not moved
\* to the end, the record overwrites the bytes at the handle's offset
InsertAtHandle(f, p, key, value) ==
  LET rec == Encode(key, value)
  IN  [file |-> SubSeq(f, 1, p) \o rec \o SubSeq(f, p + Len(rec) + 1, Len(f)),
       pos |-> p + Len(rec), current_position |-> p]

\* insert_but_ignore_index: the file is opened in append mode, the record
\* lands at the end of the file; the returned offset is the one the handle
\* had before the seek to the end
InsertButIgnoreIndex(f, p, key, value) ==
  LET rec == Encode(key, value)
  IN  [file |-> f \o rec, pos |-> Len(f) + Len(rec), current_position |-> p]

\* the model stops appending when the record would pass the bound
FitsIn(limit, key, value) == Len(file) + 12 + Len(key) + Len(value) <= limit
Fits(key, value) == FitsIn(MaxFileLen, key, value)

\* insert, called as `op`
InsertCall(op, key, value) ==
  \E w \in {InsertButIgnoreIndex(file, pos, key, value)} :
      /\ phase # "Panicked"
      /\ file' = w.file
      /\ pos' = w.pos
      /\ index' = IndexInsert(index, key, w.current_position)
      /\ last' = Call(op, key, value, "Ok", <<>>, w.current_position,
                      Len(file), pos)
      /\ prev' = Brief(last)
      /\ UNCHANGED <<phase, debug, fault>>

\* insert
Insert ==
  \E key \in Keys, value \in Values :
    Fits(key, value) /\ InsertCall("insert", key, value)

\* mutant: update of a key without an index entry fails
UpdateIfPresent ==
  \E key \in Keys, value \in Values :
    /\ Fits(key, value)
    /\ IF key \in DOMAIN index
       THEN InsertCall("update", key, value)
       ELSE /\ phase # "Panicked"
            /\ last' = Call("update", key, value, "Err", <<>>, 0, Len(file),
                            pos)
            /\ prev' = Brief(last)
            /\ UNCHANGED <<file, pos, index, phase, debug, fault>>

\* update
Update ==
  \E key \in Keys, value \in Values :
    Fits(key, value) /\ InsertCall("update", key, value)

\* mutant: delete also drops the key's index entry
DeleteRemovesEntry ==
  \E key \in Keys :
    \E w \in {InsertButIgnoreIndex(file, pos, key, <<>>)} :
      /\ phase # "Panicked"
      /\ Fits(key, <<>>)
      /\ file' = w.file
      /\ pos' = w.pos
      /\ index' = [x \in (DOMAIN index) \ {key} |-> index[x]]
      /\ last' = Call("delete", key, <<>>, "Ok", <<>>, w.current_position,
                      Len(file), pos)
      /\ prev' = Brief(last)
      /\ UNCHANGED <<phase, debug, fault>>

\* delete
Delete == \E key \in Keys : Fits(key, <<>>) /\ InsertCall("delete", key, <<>>)

\* mutant: a key without an index entry is an error
GetCallAbsentIsError(key) ==
    /\ phase # "Panicked"
    /\ prev' = Brief(last)
    /\ UNCHANGED <<file, debug, fault>>
    /\ IF key \notin DOMAIN index
       THEN /\ last' = Call("get", key, <<>>, "Err", <<>>, 0, Len(file), pos)
            /\ UNCHANGED <<pos, index, phase>>
       ELSE \E r \in {ProcessRecord(file, index[key], debug)} :
                /\ index' = index
                /\ CASE r.kind = "Ok" ->
                          /\ last' = Call("get", key, <<>>, "Some", r.value,
                                          index[key], Len(file), pos)
                          /\ pos' = r.fd
                          /\ phase' = phase
                     [] r.kind = "Eof" ->
                          /\ last' = Call("get", key, <<>>, "Err", <<>>,
                                          index[key], Len(file), pos)
                          /\ pos' = r.fd
                          /\ phase' = phase
                     [] OTHER ->
                          /\ last' = Call("get", key, <<>>, "Panic", <<>>,
                                          index[key], Len(file), pos)
                          /\ pos' = index[key]
                          /\ phase' = "Panicked"

\* get
GetCall(key) ==
    /\ phase # "Panicked"
    /\ prev' = Brief(last)
    /\ UNCHANGED <<file, debug, fault>>
    /\ IF key \notin DOMAIN index
       THEN /\ last' = Call("get", key, <<>>, "None", <<>>, 0, Len(file), pos)
            /\ UNCHANGED <<pos, index, phase>>
       ELSE \E r \in {ProcessRecord(file, index[key], debug)} :
                /\ index' = index
                /\ CASE r.kind = "Ok" ->
                          /\ last' = Call("get", key, <<>>, "Some", r.value,
                                          index[key], Len(file), pos)
                          /\ pos' = r.fd
                          /\ phase' = phase
                     [] r.kind = "Eof" ->
                          /\ last' = Call("get", key, <<>>, "Err", <<>>,
                                          index[key], Len(file), pos)
                          /\ pos' = r.fd
                          /\ phase' = phase
                     [] OTHER ->
                          /\ last' = Call("get", key, <<>>, "Panic", <<>>,
                                          index[key], Len(file), pos)
                          /\ pos' = index[key]
                          /\ phase' = "Panicked"

\* get of one of the keys
Get == \E key \in Keys : GetCall(key)

\* mutant: a file that ends inside a header is an error
RECURSIVE LoadLoopStrictEof(_, _, _, _)
LoadLoopStrictEof(f, p, idx, dbg) ==
  LET r == ProcessRecord(f, p, dbg)
  IN  CASE r.kind = "Eof" ->
             [res |-> IF p = Len(f) THEN "Ok" ELSE "Err", index |-> idx,
              pos |-> r.fd]
        [] r.kind = "Panic" -> [res |-> "Panic", index |-> idx, pos |-> p]
        [] OTHER ->
             LoadLoopStrictEof(f, r.next, IndexInsert(idx, r.key, p), dbg)

\* the loop of load, from offset p with index idx
RECURSIVE LoadLoop(_, _, _, _)
LoadLoop(f, p, idx, dbg) ==
  LET r == ProcessRecord(f, p, dbg)
  IN  CASE r.kind = "Eof" -> [res |-> "Ok", index |-> idx, pos |-> r.fd]
        [] r.kind = "Panic" -> [res |-> "Panic", index |-> idx, pos |-> p]
        [] OTHER -> LoadLoop(f, r.next, IndexInsert(idx, r.key, p), dbg)

\* mutant: load empties the index before its scan
LoadClearsIndex ==
  \E l \in {LoadLoop(file, pos, EmptyIndex, debug)} :
      /\ phase # "Panicked"
      /\ index' = l.index
      /\ pos' = l.pos
      /\ phase' = CASE l.res = "Ok" -> "Ready"
                  [] l.res = "Err" -> phase
                  [] OTHER -> "Panicked"
      /\ last' = Call("load", <<>>, <<>>, l.res, <<>>, 0, Len(file), pos)
      /\ prev' = Brief(last)
      /\ UNCHANGED <<file, debug, fault>>

\* load
Load ==
  \E l \in {LoadLoop(file, pos, index, debug)} :
      /\ phase # "Panicked"
      /\ index' = l.index
      /\ pos' = l.pos
      /\ phase' = CASE l.res = "Ok" -> "Ready"
                  [] l.res = "Err" -> phase
                  [] OTHER -> "Panicked"
      /\ last' = Call("load", <<>>, <<>>, l.res, <<>>, 0, Len(file), pos)
      /\ prev' = Brief(last)
      /\ UNCHANGED <<file, debug, fault>>

\* the store is dropped (or its process has died) and the same path is
\* opened again
Open ==
  /\ last.op # "open"
  /\ index' = EmptyIndex
  /\ pos' = 0
  /\ phase' = "Opened"
  /\ last' = Call("open", <<>>, <<>>, "Ok", <<>>, 0, Len(file), 0)
  /\ prev' = NoCall
  /\ UNCHANGED <<file, debug, fault>>

\* ------------------------------------------------------------------------
\* Specification: a store opened on a valid log, no I/O failures
\* ------------------------------------------------------------------------
InitFiles ==
  {<<>>, Encode(KeyA, <<49>>), Encode(KeyB, <<>>),
   Encode(KeyA, <<49>>) \o Encode(KeyB, <<50>>)}

InitStore(f) ==
  /\ file = f
  /\ pos = 0
  /\ index = EmptyIndex
  /\ phase = "Opened"
  /\ debug \in BOOLEAN
  /\ last = Call("open", <<>>, <<>>, "Ok", <<>>, 0, Len(f), 0)
  /\ prev = NoCall
  /\ fault = NoFault

Init == \E f \in InitFiles : InitStore(f)

Next == Insert \/ Update \/ Delete \/ Get \/ Load \/ Open

Spec == Init /\ [][Next]_vars

\* ------------------------------------------------------------------------
\* Reading the log by its format (section 6 of the specification), used to
\* state the properties: complete records are laid end to end from offset 0
\* ------------------------------------------------------------------------
KeyLenAt(f, o) == f[o + 5] + 256 * f[o + 6]
ValLenAt(f, o) == f[o + 9] + 256 * f[o + 10]
RecordEnd(f, o) == o + 12 + KeyLenAt(f, o) + ValLenAt(f, o)
KeyAt(f, o) == SubSeq(f, o + 13, o + 12 + KeyLenAt(f, o))
ValueAt(f, o) == SubSeq(f, o + 13 + KeyLenAt(f, o), RecordEnd(f, o))

RECURSIVE RecordOffsetsFrom(_, _)
RecordOffsetsFrom(f, o) ==
  IF o + 12 > Len(f) \/ RecordEnd(f, o) > Len(f) THEN {}
  ELSE {o} \cup RecordOffsetsFrom(f, RecordEnd(f, o))

RecordOffsets(f) == RecordOffsetsFrom(f, 0)
KeysInLog(f) == {KeyAt(f, o) : o \in RecordOffsets(f)}
OffsetsOfKey(f, k) == {o \in RecordOffsets(f) : KeyAt(f, o) = k}
LatestOffset(f, k) ==
  CHOOSE o \in OffsetsOfKey(f, k) : \A q \in OffsetsOfKey(f, k) : q <= o

IsMutation(c) == c.op \in {"insert", "update", "delete"}

\* ------------------------------------------------------------------------
\* Specification with one failure of the file or the disk per behaviour
\* ------------------------------------------------------------------------
\* insert when one of the two seeks of insert_but_ignore_index fails: the
\* error is returned, nothing was handed to the file
InsertSeekFails ==
  \E key \in Keys :
    /\ phase # "Panicked"
    /\ fault = NoFault
    /\ fault' = [kind |-> "seek", off |-> Len(file), n |-> 0]
    /\ last' = Call("insert", key, <<49>>, "Err", <<>>, 0, Len(file), pos)
    /\ prev' = Brief(last)
    /\ UNCHANGED <<file, pos, index, phase, debug>>

\* insert when the file refuses the record after n of its bytes: the bytes
\* sit in the BufWriter until it is dropped at the end of
\* insert_but_ignore_index, and the drop discards the error of its flush
InsertFlushFails ==
  \E key \in Keys :
    \E w \in {InsertButIgnoreIndex(file, pos, key, <<49>>)} :
      \E n \in 0..(Len(w.file) - Len(file) - 1) :
        /\ phase # "Panicked"
        /\ FitsIn(MaxFaultFileLen, key, <<49>>)
        /\ fault = NoFault
        /\ fault' = [kind |-> "flush", off |-> Len(file), n |-> n]
        /\ file' = SubSeq(w.file, 1, Len(file) + n)
        /\ pos' = Len(file) + n
        /\ index' = IndexInsert(index, key, w.current_position)
        /\ last' = Call("insert", key, <<49>>, "Ok", <<>>,
                        w.current_position, Len(file), pos)
        /\ prev' = Brief(last)
        /\ UNCHANGED <<phase, debug>>

FlipBitOf(byte, b) ==
  IF (byte \div (2 ^ b)) % 2 = 1 THEN byte - 2 ^ b ELSE byte + 2 ^ b

\* the disk flips one bit of the key or value bytes of a record of the log
FlipBit ==
  \E o \in {q \in 0..Len(file) : fault = NoFault /\ q \in RecordOffsets(file)} :
    \E i \in (o + 13)..RecordEnd(file, o), b \in 0..7 :
      /\ fault' = [kind |-> "flip", off |-> o, n |-> i]
      /\ file' = [file EXCEPT ![i] = FlipBitOf(file[i], b)]
      /\ UNCHANGED <<pos, index, phase, debug, last, prev>>

\* insert of the value "1"
InsertOne ==
  \E key \in Keys :
    FitsIn(MaxFaultFileLen, key, <<49>>) /\ InsertCall("insert", key, <<49>>)

FaultNext ==
  \/ InsertOne \/ Get \/ Load \/ Open
  \/ InsertSeekFails \/ InsertFlushFails \/ FlipBit

SpecFault == Init /\ [][FaultNext]_vars

\* ------------------------------------------------------------------------
\* Specification of the concrete scenario: on an empty file the mutations
\* insert("a","1"), insert("b","2"), update("a","3"), delete("b") in this
\* order, with get, load and reopening at any point
\* ------------------------------------------------------------------------
Script ==
  <<[op |-> "insert", key |-> KeyA, value |-> <<49>>],
    [op |-> "insert", key |-> KeyB, value |-> <<50>>],
    [op |-> "update", key |-> KeyA, value |-> <<51>>],
    [op |-> "delete", key |-> KeyB, value |-> <<>>]>>

RECURSIVE ScriptBytes(_)
ScriptBytes(n) ==
  IF n = 0 THEN <<>>
  ELSE ScriptBytes(n - 1) \o Encode(Script[n].key, Script[n].value)

ScriptDone == CHOOSE n \in 0..Len(Script) : file = ScriptBytes(n)

ScenarioMutation ==
  \E n \in 1..Len(Script) :
    /\ file = ScriptBytes(n - 1)
    /\ InsertCall(Script[n].op, Script[n].key, Script[n].value)

ScenarioNext == ScenarioMutation \/ Get \/ Load \/ Open

SpecScenario == InitStore(<<>>) /\ [][ScenarioNext]_vars

\* ------------------------------------------------------------------------
\* Specification with the keys "", "a", "ab" and the values "", "c", "bc":
\* records with an empty key, an empty value or both, and records whose
\* payload "abc" is cut at different places
\* ------------------------------------------------------------------------
CodecKeys == {<<>>, <<97>>, <<97, 98>>}
CodecValues == {<<>>, <<99>>, <<98, 99>>}

CodecInsert ==
  \E key \in CodecKeys, value \in CodecValues :
    FitsIn(MaxCodecFileLen, key, value) /\ InsertCall("insert", key, value)

CodecUpdate ==
  \E key \in CodecKeys, value \in CodecValues :
    FitsIn(MaxCodecFileLen, key, value) /\ InsertCall("update", key, value)

CodecDelete ==
  \E key \in CodecKeys :
    FitsIn(MaxCodecFileLen, key, <<>>) /\ InsertCall("delete", key, <<>>)

CodecGet == \E key \in CodecKeys : GetCall(key)

CodecNext ==
  CodecInsert \/ CodecUpdate \/ CodecDelete \/ CodecGet \/ Load \/ Open

SpecCodec == Init /\ [][CodecNext]_vars

\* ------------------------------------------------------------------------
\* Specification of one session: a valid log is opened, load is the first
\* call, then get, insert, update and delete in any order
\* ------------------------------------------------------------------------
SessionLoad == last.op = "open" /\ Load
SessionInsert == last.op # "open" /\ Insert
SessionUpdate == last.op # "open" /\ Update
SessionDelete == last.op # "open" /\ Delete
SessionGet == last.op # "open" /\ Get

SessionNext ==
  SessionLoad \/ SessionInsert \/ SessionUpdate \/ SessionDelete
    \/ SessionGet

SpecSession == Init /\ [][SessionNext]_vars

\* ------------------------------------------------------------------------
\* Specification of the length arithmetic of a record: a key and a value
\* are given by their lengths alone, as usize pairs, so that lengths of
\* 2^31 and 2^32 bytes are among them. `last` holds the lengths, then the
\* header fields insert writes for them, then what process_record computes
\* from these fields on a file that holds this one record.
\* ------------------------------------------------------------------------
\* 0, 1, 2^16 - 1, 2^16, 2^31, 2^32 - 1, 2^32, 2^32 + 1
Lengths ==
  {<<0, 0>>, <<0, 1>>, <<0, Half - 1>>, <<1, 0>>, <<Half \div 2, 0>>,
   <<Half - 1, Half - 1>>, <<Half, 0>>, <<Half, 1>>}

\* usize + usize on pairs (the 64 bits of a usize are not exceeded here)
AddUsize(v, w) ==
  <<v[1] + w[1] + ((v[2] + w[2]) \div Half), (v[2] + w[2]) % Half>>

\* min of two lengths given as pairs
MinUsize(v, w) ==
  IF v[1] < w[1] \/ (v[1] = w[1] /\ v[2] <= w[2]) THEN v ELSE w

\* the state after open, with the lengths of the key and the value of the
\* insert that follows
InitLengths ==
  \E kl \in Lengths, vl \in Lengths :
    /\ file = <<>>
    /\ pos = 0
    /\ index = EmptyIndex
    /\ phase = "Opened"
    /\ debug \in BOOLEAN
    /\ last = [op |-> "open", key_len |-> kl, val_len |-> vl]
    /\ prev = NoCall
    /\ fault = NoFault

\* insert_but_ignore_index: the two length fields of the header and the
\* number of payload bytes handed to the writer
WriteLengths ==
  /\ last.op = "open"
  /\ last' = [op |-> "insert", key_len |-> last.key_len,
              val_len |-> last.val_len,
              header |-> [key_len |-> TruncU32(last.key_len),
                          val_len |-> TruncU32(last.val_len)],
              written |-> AddUsize(last.key_len, last.val_len)]
  /\ prev' = [op |-> "open", key |-> <<>>, value |-> <<>>, res |-> "Ok"]
  /\ UNCHANGED <<file, pos, index, phase, debug, fault>>

\* process_record on this record: data_len = key_len + val_len in u32,
\* then take(data_len).read_to_end on the payload that is in the file
ReadLengths ==
  /\ last.op = "insert"
  /\ \E add \in {AddU32(last.header.key_len, last.header.val_len)} :
       /\ last' = [op |-> "process_record", key_len |-> last.key_len,
                   val_len |-> last.val_len, header |-> last.header,
                   written |-> last.written,
                   overflow |-> add.overflow,
                   data_len |-> add.sum,
                   read |-> IF debug /\ add.overflow THEN <<0, 0>>
                            ELSE MinUsize(add.sum, last.written),
                   res |-> IF debug /\ add.overflow THEN "Panic" ELSE "Read"]
       /\ phase' = IF debug /\ add.overflow THEN "Panicked" ELSE phase
  /\ prev' = [op |-> "insert", key |-> <<>>, value |-> <<>>, res |-> "Ok"]
  /\ UNCHANGED <<file, pos, index, debug, fault>>

LengthsNext == WriteLengths \/ ReadLengths

SpecLengths == InitLengths /\ [][LengthsNext]_vars

\* ------------------------------------------------------------------------
\* Properties
\* ------------------------------------------------------------------------

\* C1: an insert(K, V) that returns Ok, immediately followed by get(K),
\* makes get return Some(V), from every state reachable after open.
C1_RoundTrip ==
  (last.op = "get" /\ prev.op = "insert" /\ prev.res = "Ok"
     /\ prev.key = last.key)
  => (last.res = "Some" /\ last.out = prev.value)

\* C2: after a successful load or mutation every index entry points at a
\* record with that key, and it is the most recent record with that key.
C2_IndexInvariant ==
  (last.res = "Ok" /\ (last.op = "load" \/ IsMutation(last)))
  => \A k \in DOMAIN index :
       /\ index[k] \in RecordOffsets(file)
       /\ KeyAt(file, index[k]) = k
       /\ index[k] = LatestOffset(file, k)

\* C3: a successful mutation writes its record at the end of file as it
\* was before the write, and stores that offset in the index.
C3_AppendOffset ==
  (IsMutation(last) /\ last.res = "Ok")
  => /\ SubSeq(file, last.eof0 + 1, Len(file)) = Encode(last.key, last.value)
     /\ last.key \in DOMAIN index
     /\ index[last.key] = last.eof0

\* C4: whenever load returns Ok the index is the mapping of a scan of the
\* whole file: the keys of the log, each at the offset of its last record.
C4_LoadReflectsLog ==
  (last.op = "load" /\ last.res = "Ok")
  => /\ DOMAIN index = KeysInLog(file)
     /\ \A k \in DOMAIN index : index[k] = LatestOffset(file, k)

\* C5: after insert(K, V1) and insert(K, V2) the index entry of K is the
\* start offset of the second record, and a get(K) that follows returns V2.
C5_LastWriteWins ==
  [][(last.op = "insert" /\ prev.op = "insert" /\ last.res = "Ok"
        /\ prev.res = "Ok" /\ prev.key = last.key)
     => /\ last.key \in DOMAIN index
        /\ index[last.key] = last.eof0
        /\ last.eof0 \in RecordOffsets(file)
        /\ KeyAt(file, last.eof0) = last.key
        /\ ValueAt(file, last.eof0) = last.value
        /\ (last'.op = "get" /\ last'.key = last.key)
             => (last'.res = "Some" /\ last'.out = last.value)]_vars

\* two inserts of one key with different values, then a get of that key
C5_Witness ==
  /\ last.op = "get" /\ last.res = "Some"
  /\ prev.op = "insert" /\ prev.key = last.key /\ last.out = prev.value
  /\ \E o \in OffsetsOfKey(file, last.key) :
       /\ RecordEnd(file, o) = last.position
       /\ ValueAt(file, o) # last.out
  /\ RecordEnd(file, last.position) = Len(file)

\* C10: after insert(K, V) and delete(K), K still has an index entry and a
\* get(K) that follows returns a present, zero-length value.
C10_TombstoneVisible ==
  [][(last.op = "delete" /\ prev.op = "insert" /\ last.res = "Ok"
        /\ prev.res = "Ok" /\ prev.key = last.key)
     => /\ last.key \in DOMAIN index
        /\ (last'.op = "get" /\ last'.key = last.key)
             => (last'.res = "Some" /\ last'.out = <<>>
                   /\ last.key \in DOMAIN index')]_vars

\* insert, delete and get of one key
C10_Witness ==
  /\ last.op = "get" /\ last.res = "Some" /\ last.out = <<>>
  /\ prev.op = "delete" /\ prev.key = last.key
  /\ \E o \in OffsetsOfKey(file, last.key) :
       /\ RecordEnd(file, o) = last.position
       /\ ValueAt(file, o) # <<>>

\* the scenario of C6 with the record offsets o3, o4 of the third and fourth
\* mutation and the final file length n
ScenarioHolds(o3, o4, n) ==
  /\ (IsMutation(last) /\ last.res = "Ok")
       => last.eof0 = <<0, 14, o3, o4>>[ScriptDone]
  /\ (file = ScriptBytes(4) /\ last.op = "load" /\ last.res = "Ok"
        /\ prev.op = "open")
       => /\ index = (KeyA :> o3 @@ KeyB :> o4)
          /\ Len(file) = n
          /\ (last'.op = "get" /\ last'.key = KeyA)
               => (last'.res = "Some" /\ last'.out = <<51>>)
          /\ (last'.op = "get" /\ last'.key = KeyB)
               => (last'.res = "Some" /\ last'.out = <<>>)

\* C6 as stated: the four records start at offsets 0, 14, 28 and 41; after
\* reopening and load, get("a") is "3", get("b") is a present empty value,
\* the index is {a -> 28, b -> 41} and the file is 53 bytes long.
C6_ScenarioAsStated == [][ScenarioHolds(28, 41, 53)]_vars

\* C6 amended: the record of update("a","3") is 14 bytes long, so the
\* fourth record starts at offset 42, the index is {a -> 28, b -> 42} and
\* the file is 55 bytes long; the rest as stated.
C6_Scenario == [][ScenarioHolds(28, 42, 55)]_vars

\* the four mutations, a reopening, load and get("b")
C6_Witness ==
  /\ file = ScriptBytes(4)
  /\ Len(file) = 55
  /\ phase = "Ready"
  /\ last.op = "get" /\ last.key = KeyB /\ last.res = "Some" /\ last.out = <<>>
  /\ prev.op = "load"
  /\ index = (KeyA :> 28 @@ KeyB :> 42)

\* a step that is one of the calls, not a bit flipped by the disk
CallStep == ~(fault = NoFault /\ fault'.kind = "flip")

\* every index entry points at the start of a complete record
IndexAtRecords(f, idx) == \A k \in DOMAIN idx : idx[k] \in RecordOffsets(f)

\* C7: a mutation that fails leaves the index unchanged; one that returns
\* Ok has put the complete record in the file and the key in the index; no
\* index entry ever points at a missing or half-written record.
C7_NoPartialSuccess ==
  [][(CallStep /\ IsMutation(last'))
     => /\ last'.res = "Err" => index' = index
        /\ last'.res = "Ok"
             => /\ Len(file') >= last'.eof0 + Len(Encode(last'.key, last'.value))
                /\ SubSeq(file', last'.eof0 + 1,
                          last'.eof0 + Len(Encode(last'.key, last'.value)))
                     = Encode(last'.key, last'.value)
                /\ last'.key \in DOMAIN index'
        /\ IndexAtRecords(file', index')]_vars

\* C8: once a bit of a record's key or value bytes is flipped, a get that
\* reads this record panics, and so does a load whose scan comes to it; the
\* load adds no index entry for it.
C8_CorruptionDetected ==
  [][fault.kind = "flip"
     => /\ (last'.op = "get" /\ last'.key \in DOMAIN index
              /\ index[last'.key] = fault.off)
             => (last'.res = "Panic" /\ phase' = "Panicked")
        /\ (last'.op = "load" /\ pos \in RecordOffsets(file)
              /\ pos <= fault.off)
             => /\ last'.res = "Panic"
                /\ phase' = "Panicked"
                /\ \A k \in DOMAIN index' :
                     index'[k] = fault.off
                       => (k \in DOMAIN index /\ index[k] = fault.off)]_vars

\* a get of a key whose record has a flipped bit
C8_Witness ==
  /\ fault.kind = "flip"
  /\ last.op = "get" /\ last.res = "Panic" /\ last.position = fault.off
  /\ phase = "Panicked"

\* the file ends inside the record whose write failed
TailCut ==
  fault.kind = "flush" /\ fault.n > 0 /\ Len(file) = fault.off + fault.n
\* the file is a sequence of complete records
CleanEnd == fault.kind \in {"none", "seek"} \/ (fault.kind = "flush" /\ fault.n = 0)
\* a load whose scan starts at a record boundary
BoundaryLoad ==
  /\ last'.op = "load"
  /\ fault' = fault
  /\ pos \in RecordOffsets(file) \cup {fault.off}
  /\ pos <= fault.off \/ CleanEnd

C11_AppendOnly ==
  [][(CallStep /\ last'.op # "open")
     => /\ Len(file') >= Len(file)
        /\ SubSeq(file', 1, Len(file)) = file
        /\ last'.op \in {"get", "load"} => file' = file]_vars

\* a mutation on a file that has records, with the handle inside the file
C11_Witness ==
  /\ IsMutation(last) /\ last.res = "Ok"
  /\ last.eof0 > 0 /\ last.pos0 < last.eof0
  /\ prev.op = "get" /\ prev.res = "Some"
  /\ Len(file) > last.eof0
  /\ SubSeq(file, 1, last.eof0) \in
       {Encode(KeyA, <<49>>) \o Encode(KeyB, <<50>>), Encode(KeyA, <<49>>),
        Encode(KeyB, <<>>)}

\* C12: a load that directly follows a load, the file being the same for
\* both, returns what the first one returned and leaves the index with
\* exactly the key -> offset pairs the first one left.
C12_LoadIdempotent ==
  [][(last.op = "load" /\ last'.op = "load" /\ file' = file)
     => /\ last'.res = last.res
        /\ index' = index]_vars

\* two loads in a row on a log with records, the first one from offset 0
C12_Witness ==
  /\ last.op = "load" /\ last.res = "Ok"
  /\ prev.op = "load" /\ prev.res = "Ok"
  /\ last.pos0 = Len(file) /\ Len(file) > 0
  /\ DOMAIN index = KeysInLog(file)
  /\ \A k \in DOMAIN index : index[k] = LatestOffset(file, k)

\* every successful mutation of key K with value V makes the file longer by
\* exactly 12 + |K| + |V| bytes
RecordSize ==
  (CallStep /\ IsMutation(last') /\ last'.res = "Ok")
  => Len(file') = Len(file) + 12 + Len(last'.key) + Len(last'.value)

\* C13: every successful insert, update or delete of key K with value V
\* makes the file longer by exactly 12 + |K| + |V| bytes, also when K has an
\* entry already; insert("", "") adds exactly 12 bytes, and a get("") that
\* follows it returns a present empty value.
C13_RecordSize ==
  [][/\ RecordSize
     /\ (last.op = "insert" /\ last.res = "Ok" /\ last.key = <<>>
           /\ last.value = <<>>)
        => /\ Len(file) = last.eof0 + 12
           /\ (last'.op = "get" /\ last'.key = <<>>)
                => (last'.res = "Some" /\ last'.out = <<>>)]_vars

\* C14: get(K) for a key K without an index entry returns None, never an
\* error, and leaves the index, the file and the handle's offset unchanged.
C14_AbsentKey ==
  [][(last'.op = "get" /\ last'.key \notin DOMAIN index)
     => /\ last'.res = "None"
        /\ index' = index
        /\ file' = file
        /\ pos' = pos
        /\ phase' = phase]_vars

\* get of a key without an entry while another key has one and the handle
\* is inside the file
C14_Witness ==
  /\ last.op = "get" /\ last.res = "None"
  /\ last.key \notin DOMAIN index
  /\ index # EmptyIndex
  /\ prev.op = "get" /\ prev.res = "Some"
  /\ last.pos0 = pos /\ 0 < pos /\ pos < Len(file)

\* C15: update(K, V) returns what insert(K, V) returns from the same state
\* and leaves the file, the handle and the index as insert(K, V) would,
\* whether K has an index entry or not; it never fails because K is absent.
\* (One relation between the state before and the state after holds for
\* the steps of both calls.)
C15_UpdateIsInsert ==
  [][last'.op \in {"insert", "update"}
     => \E w \in {InsertButIgnoreIndex(file, pos, last'.key, last'.value)} :
          /\ last'.res = "Ok"
          /\ file' = w.file
          /\ pos' = w.pos
          /\ index' = IndexInsert(index, last'.key, w.current_position)
          /\ phase' = phase]_vars

\* update as the first call after open, for a key that has no index entry,
\* on a log that has records
C15_Witness ==
  /\ last.op = "update" /\ last.res = "Ok"
  /\ prev.op = "open"
  /\ last.eof0 > 0
  /\ DOMAIN index = {last.key}

\* what open followed by load returns and builds on the file f
Reopened(f, dbg) == LoadLoop(f, 0, EmptyIndex, dbg)

\* C16: in a session that began with open and load on a valid log, after
\* any sequence of successful get, insert, update and delete calls the
\* index is the one that open and load would build on the file as it is
\* now, so every get returns what it would return after a restart.
C16_IndexIsRebuilt ==
  (last.op # "open" /\ phase = "Ready")
  => \E r \in {Reopened(file, debug)} :
       /\ r.res = "Ok"
       /\ index = r.index
       /\ \A k \in DOMAIN index :
            ProcessRecord(file, index[k], debug)
              = ProcessRecord(file, r.index[k], debug)

\* the bytes the last mutation has put in the file
Written == SubSeq(file, last.eof0 + 1, Len(file))

\* C17: process_record on the bytes insert writes for (K, V) returns
\* exactly the key K and the value V, the payload being cut at the stored
\* key length; pairs with one concatenated payload and different cuts, such
\* as ("ab", "c") and ("a", "bc"), are written as different bytes and each
\* decodes to its own key and value.
C17_CodecRoundTrip ==
  (IsMutation(last) /\ last.res = "Ok")
  => \E r \in {ProcessRecord(Written, 0, debug)} :
       /\ r.kind = "Ok"
       /\ r.key = last.key
       /\ r.value = last.value
       /\ r.next = Len(Written)
       /\ \A o \in RecordOffsets(file) :
            (KeyAt(file, o) \o ValueAt(file, o) = last.key \o last.value
               /\ KeyAt(file, o) # last.key)
            => /\ SubSeq(file, o + 1, RecordEnd(file, o)) # Written
               /\ ProcessRecord(file, o, debug).key # r.key
               /\ ProcessRecord(file, o, debug).value # r.value

\* the log holds the record of ("a", "bc") and, written last, the record of
\* ("ab", "c")
C17_Witness ==
  /\ last.op = "insert" /\ last.res = "Ok"
  /\ last.key = <<97, 98>> /\ last.value = <<99>>
  /\ file = Encode(<<97>>, <<98, 99>>) \o Encode(<<97, 98>>, <<99>>)
  /\ ProcessRecord(file, 0, debug).key = <<97>>
  /\ ProcessRecord(file, 0, debug).value = <<98, 99>>

\* C18: a key that has an index entry keeps one through every later get,
\* insert, update, delete and load of the same store instance, and a get of
\* such a key never returns None.
C18_KeysStay ==
  [][(CallStep /\ last'.op # "open")
     => /\ \A k \in DOMAIN index : k \in DOMAIN index'
        /\ (last'.op = "get" /\ last'.key \in DOMAIN index)
             => last'.res # "None"]_vars

\* both keys have entries; the one whose latest record is a tombstone is
\* read after a load
C18_Witness ==
  /\ DOMAIN index = Keys
  /\ last.op = "get" /\ last.res = "Some"
  /\ prev.op = "load" /\ prev.res = "Ok"
  /\ last.key \in KeysInLog(file)
  /\ ValueAt(file, LatestOffset(file, last.key)) = <<>>
  /\ \E o \in OffsetsOfKey(file, last.key) : ValueAt(file, o) # <<>>

\* the offsets at which the loop of load calls process_record when it
\* starts at offset p, followed by -1 if it would make more than `fuel`
\* calls
RECURSIVE ScanFrom(_, _, _, _)
ScanFrom(f, p, dbg, fuel) ==
  IF fuel = 0 THEN <<-1>>
  ELSE LET r == ProcessRecord(f, p, dbg)
       IN  IF r.kind = "Ok" THEN <<p>> \o ScanFrom(f, r.next, dbg, fuel - 1)
           ELSE <<p>>

\* the calls of process_record that fit between offset p and the end of f
\* when each of them reads at least a header, and the one that ends the scan
ScanBound(f, p) == (Len(f) - p) \div 12 + 1

\* C19: on every file, valid or not, and from every offset of the handle,
\* the loop of load either ends at a call of process_record or that call
\* has read a 12-byte header and moved the offset forward by at least 12
\* bytes, within the file; so the loop makes at most ScanBound calls and
\* load finishes, with Ok, an error or a panic.
C19_LoadTerminates ==
  \A p0 \in {0, pos} :
    \E s \in {ScanFrom(file, p0, debug, ScanBound(file, p0))} :
      /\ s[Len(s)] # -1
      /\ \A i \in 1..(Len(s) - 1) :
           s[i + 1] >= s[i] + 12 /\ s[i + 1] <= Len(file)
      /\ LoadLoop(file, p0, index, debug).res \in {"Ok", "Err", "Panic"}
      /\ LoadLoop(file, p0, index, debug).pos >= s[Len(s)]

\* a load from offset 0 that has read one record or more and then has come
\* to a record with a flipped bit
C19_Witness ==
  /\ fault.kind = "flip" /\ fault.off > 0
  /\ last.op = "load" /\ last.res = "Panic" /\ last.pos0 = 0
  /\ pos = fault.off
  /\ Len(ScanFrom(file, 0, debug, ScanBound(file, 0))) >= 2

\* C20: for the key and the value of every insert the key_len and val_len
\* fields of the header are the true lengths, nothing being lost in the
\* conversion to 32 bits; process_record adds the two fields without
\* overflow of the 32 bits, and it reads as many payload bytes as insert
\* has written.
C20_LengthArithmetic ==
  /\ last.op \in {"insert", "process_record"}
       => /\ last.header.key_len = last.key_len
          /\ last.header.val_len = last.val_len
  /\ last.op = "process_record"
       => /\ ~last.overflow
          /\ last.res = "Read"
          /\ last.read = last.written
====
